---- MODULE Spec2Model ----
(***************************************************************************)
(* Model of websocket_client_sync_ssl.cpp: main() starts two pipelines     *)
(* against the same target, sync_test on a worker thread (std::async) and  *)
(* async_test as a coroutine driven by ioc.run() on the main thread.  Each *)
(* pipeline resolves, connects, sets SNI, performs the TLS handshake, the  *)
(* WebSocket upgrade, one write, one read and a close, and reports through *)
(* console::println, which serialises on console::iomutex.                 *)
(*                                                                         *)
(* The network, the TLS library and the server are the environment: every  *)
(* I/O call either succeeds or fails, chosen nondeterministically.         *)
(***************************************************************************)
EXTENDS Integers, Sequences, FiniteSets

VARIABLES
    argv,        \* the command line arguments after the program name
    mainPc,      \* position of main()
    exitStatus,  \* value returned by main(), NoStatus while running
    ctxLoaded,   \* number of load_root_certificates(ctx) calls completed
    cerr,        \* what has been written to std::cerr
    iomutex,     \* console::iomutex: its owner, or Free
    cout,        \* what has been written to std::cout, as a sequence of tokens
    st           \* st[p]: the locals and position of pipeline p

vars == <<argv, mainPc, exitStatus, ctxLoaded, cerr, iomutex, cout, st>>

(***************************************************************************)
(* Bounds and input sets                                                   *)
(***************************************************************************)
MaxEndpoints == 2                       \* candidate addresses in one resolve result

Pipelines == {"sync", "async"}
Hosts     == {"example.com", "echo.websocket.org"}
PortStrs  == {"443", "https"}           \* the port as given on the command line
Texts     == {"Hello"}
ConnPorts == {443, 8443}                \* ports carried by resolved endpoints
Replies   == {"Hello", "Bye"}           \* messages the server may send back

Free     == "free"
NoStr    == "<none>"
NoStatus == -1
EXIT_SUCCESS == 0
EXIT_FAILURE == 1

BOOST_BEAST_VERSION_STRING == "Boost.Beast"

UsageText == "Usage: websocket-client-sync-ssl <host> <port> <text>"

(***************************************************************************)
(* std::to_string on the (unsigned short) port                             *)
(***************************************************************************)
Digit(d) ==
    CASE d = 0 -> "0" [] d = 1 -> "1" [] d = 2 -> "2" [] d = 3 -> "3"
      [] d = 4 -> "4" [] d = 5 -> "5" [] d = 6 -> "6" [] d = 7 -> "7"
      [] d = 8 -> "8" [] d = 9 -> "9"

RECURSIVE to_string(_)
to_string(n) ==
    IF n < 10 THEN Digit(n) ELSE to_string(n \div 10) \o Digit(n % 10)

(***************************************************************************)
(* error_code::message() for the outcomes of the WebSocket handshake       *)
(***************************************************************************)
EcSuccess   == "success"
EcDeclined  == "upgrade_declined"
EcTransport == "eof"
EcUnset     == "unset"

message(ec) ==
    CASE ec = EcSuccess   -> "Success"
      [] ec = EcDeclined  -> "The WebSocket handshake was declined by the remote peer"
      [] ec = EcTransport -> "End of file"
      [] OTHER            -> NoStr

\* `if (ec)`: an error_code converts to true when it holds an error
IsError(ec) == ec \in {EcDeclined, EcTransport}

(***************************************************************************)
(* The locals of one pipeline before it has been started                   *)
(***************************************************************************)
NoEndpoints == [n |-> 0, port |-> 0]
NoEp        == [port |-> 0]
NoReq       == [host |-> NoStr, path |-> NoStr, user_agent |-> NoStr]

InitPipe ==
    [ pc        |-> "idle",
      host      |-> NoStr,          \* the by-value parameter host (mutated)
      port      |-> NoStr,
      path      |-> NoStr,
      text      |-> NoStr,
      results   |-> NoEndpoints,    \* resolver results, until connect has used them
      ep        |-> NoEp,           \* endpoint returned by connect (its port)
      sni       |-> NoStr,          \* name given to SSL_set_tlsext_host_name
      ws        |-> "Unconnected",  \* state of the websocket stream
      destroyed |-> FALSE,          \* the stream object has gone out of scope
      ua        |-> NoStr,          \* User-Agent the decorator sets
      req       |-> NoReq,          \* the upgrade request put on the wire
      ec        |-> EcUnset,
      response  |-> NoStr,
      sent      |-> <<>>,           \* messages written to the stream
      buffer    |-> NoStr,          \* beast::flat_buffer contents
      close_code |-> NoStr,         \* close code given to ws.close
      what      |-> NoStr,          \* e.what() of the exception in flight
      ops       |-> <<>>,           \* history of the I/O calls made
      args      |-> <<>>,           \* arguments of the println call in progress
      written   |-> 0,              \* how many of them reached std::cout
      ret       |-> "idle" ]        \* where the println call returns to

StartPipe(h, p, path, t) ==
    [InitPipe EXCEPT !.pc = "resolve", !.host = h, !.port = p,
                     !.path = path, !.text = t]

Op(name, ok) == [op |-> name, ok |-> ok]

\* An exception thrown inside the function-try-block: the locals are
\* destroyed by unwinding and control reaches the catch clause.
Throw(s, name, msg) ==
    [s EXCEPT !.pc = "catch", !.what = msg, !.destroyed = TRUE,
              !.ops = Append(@, Op(name, FALSE))]

Init ==
    /\ argv \in { <<h, p>> : h \in Hosts, p \in PortStrs }
            \cup { <<h, p, t>> : h \in Hosts, p \in PortStrs, t \in Texts }
            \cup { <<h, p, t, t>> : h \in Hosts, p \in PortStrs, t \in Texts }
    /\ mainPc = "check_args"
    /\ exitStatus = NoStatus
    /\ ctxLoaded = 0
    /\ cerr = <<>>
    /\ iomutex = Free
    /\ cout = <<>>
    /\ st = [p \in Pipelines |-> InitPipe]

(***************************************************************************)
(* main()                                                                  *)
(***************************************************************************)
argc == Len(argv) + 1

\* main_check_args testing for too few arguments only
main_check_args_too_few ==
    /\ mainPc = "check_args"
    /\ IF argc < 4
         THEN /\ cerr' = Append(cerr, UsageText)
              /\ exitStatus' = EXIT_FAILURE
              /\ mainPc' = "exited"
         ELSE /\ mainPc' = "load_certs"
              /\ UNCHANGED <<cerr, exitStatus>>
    /\ UNCHANGED <<argv, ctxLoaded, iomutex, cout, st>>

main_check_args ==
    /\ mainPc = "check_args"
    /\ IF argc # 4
         THEN /\ cerr' = Append(cerr, UsageText)
              /\ exitStatus' = EXIT_FAILURE
              /\ mainPc' = "exited"
         ELSE /\ mainPc' = "load_certs"
              /\ UNCHANGED <<cerr, exitStatus>>
    /\ UNCHANGED <<argv, ctxLoaded, iomutex, cout, st>>

\* main_load_root_certificates with the call left out
main_load_root_certificates_skipped ==
    /\ mainPc = "load_certs"
    /\ mainPc' = "async"
    /\ UNCHANGED <<argv, exitStatus, ctxLoaded, cerr, iomutex, cout, st>>

main_load_root_certificates ==
    /\ mainPc = "load_certs"
    /\ ctxLoaded' = ctxLoaded + 1
    /\ mainPc' = "async"
    /\ UNCHANGED <<argv, exitStatus, cerr, iomutex, cout, st>>

\* std::async(std::launch::async, ...): the worker thread starts sync_test
\* with copies of host, port and text
main_async ==
    /\ mainPc = "async"
    /\ st' = [st EXCEPT !["sync"] = StartPipe(argv[1], argv[2], "/401", argv[3])]
    /\ mainPc' = "co_spawn"
    /\ UNCHANGED <<argv, exitStatus, ctxLoaded, cerr, iomutex, cout>>

\* co_spawn(ioc, async_test(...), detached): the coroutine is created with
\* copies of the arguments and runs once ioc.run() executes it
main_co_spawn ==
    /\ mainPc = "co_spawn"
    /\ st' = [st EXCEPT !["async"] = StartPipe(argv[1], argv[2], "/401", argv[3])]
    /\ mainPc' = "run"
    /\ UNCHANGED <<argv, exitStatus, ctxLoaded, cerr, iomutex, cout>>

\* ioc.run() returns when the io_context has run out of work, that is when
\* the coroutine has finished
main_run ==
    /\ mainPc = "run"
    /\ st["async"].pc = "done"
    /\ mainPc' = "wait"
    /\ UNCHANGED <<argv, exitStatus, ctxLoaded, cerr, iomutex, cout, st>>

\* main_wait with the future not waited for
main_wait_no_join ==
    /\ mainPc = "wait"
    /\ mainPc' = "return"
    /\ UNCHANGED <<argv, exitStatus, ctxLoaded, cerr, iomutex, cout, st>>

main_wait ==
    /\ mainPc = "wait"
    /\ st["sync"].pc = "done"
    /\ mainPc' = "return"
    /\ UNCHANGED <<argv, exitStatus, ctxLoaded, cerr, iomutex, cout, st>>

main_return ==
    /\ mainPc = "return"
    /\ exitStatus' = EXIT_SUCCESS
    /\ mainPc' = "exited"
    /\ UNCHANGED <<argv, ctxLoaded, cerr, iomutex, cout, st>>

(***************************************************************************)
(* console::println                                                        *)
(***************************************************************************)
Token(p, s) == [by |-> p, s |-> s]

\* println_lock writing without waiting for the mutex
println_lock_unguarded(p, args, ret) ==
    /\ iomutex' = p
    /\ st' = [st EXCEPT ![p].pc = "println", ![p].args = args,
                        ![p].written = 0, ![p].ret = ret]
    /\ UNCHANGED <<argv, mainPc, exitStatus, ctxLoaded, cerr, cout>>

\* std::lock_guard<std::mutex> g{iomutex}: blocks until the mutex is free
println_lock(p, args, ret) ==
    /\ iomutex = Free
    /\ iomutex' = p
    /\ st' = [st EXCEPT ![p].pc = "println", ![p].args = args,
                        ![p].written = 0, ![p].ret = ret]
    /\ UNCHANGED <<argv, mainPc, exitStatus, ctxLoaded, cerr, cout>>

\* expand{0, ((std::cout << args), 0)...}: one argument at a time
println_arg(p) ==
    /\ st[p].pc = "println"
    /\ st[p].written < Len(st[p].args)
    /\ cout' = Append(cout, Token(p, st[p].args[st[p].written + 1]))
    /\ st' = [st EXCEPT ![p].written = @ + 1]
    /\ UNCHANGED <<argv, mainPc, exitStatus, ctxLoaded, cerr, iomutex>>

\* println_end leaving the mutex locked
println_end_no_unlock(p) ==
    /\ st[p].pc = "println"
    /\ st[p].written = Len(st[p].args)
    /\ cout' = Append(cout, Token(p, "\n"))
    /\ st' = [st EXCEPT ![p].pc = st[p].ret, ![p].args = <<>>, ![p].written = 0]
    /\ UNCHANGED <<argv, mainPc, exitStatus, ctxLoaded, cerr, iomutex>>

\* std::cout << '\n', then the lock_guard releases the mutex
println_end(p) ==
    /\ st[p].pc = "println"
    /\ st[p].written = Len(st[p].args)
    /\ cout' = Append(cout, Token(p, "\n"))
    /\ iomutex' = Free
    /\ st' = [st EXCEPT ![p].pc = st[p].ret, ![p].args = <<>>, ![p].written = 0]
    /\ UNCHANGED <<argv, mainPc, exitStatus, ctxLoaded, cerr>>

\* pipeline p is executing: the worker thread runs on its own, the
\* coroutine only inside ioc.run()
Running(p) == IF p = "async" THEN mainPc = "run" ELSE TRUE

println_step(p) ==
    /\ Running(p)
    /\ println_arg(p) \/ println_end(p)

Upd(p, s) ==
    /\ st' = [st EXCEPT ![p] = s]
    /\ UNCHANGED <<argv, mainPc, exitStatus, ctxLoaded, cerr, iomutex, cout>>

(***************************************************************************)
(* What the environment may answer                                         *)
(***************************************************************************)
\* results of a successful lookup: up to MaxEndpoints addresses of one service port
ResolveResults == { [n |-> k, port |-> q] : k \in 1..MaxEndpoints, q \in ConnPorts }

\* outcomes of ws.handshake(response, host, path, ec): accepted, declined by
\* the server, or the transport failing while the handshake is in progress
Response101 == "HTTP/1.1 101 Switching Protocols"
Response401 == "HTTP/1.1 401 Unauthorized"
NoResponse  == ""

HandshakeOutcomes ==
    { [ec |-> EcSuccess,   response |-> Response101],
      [ec |-> EcDeclined,  response |-> Response401],
      [ec |-> EcTransport, response |-> NoResponse] }

(***************************************************************************)
(* sync_test, run by the worker thread                                     *)
(***************************************************************************)
\* sync_resolve with the failure of the lookup not raised
sync_resolve_unchecked ==
    LET s == st["sync"] IN
    /\ s.pc = "resolve"
    /\ \/ \E r \in ResolveResults :
             Upd("sync", [s EXCEPT !.results = r, !.pc = "connect",
                                   !.ops = Append(@, Op("resolve", TRUE))])
       \/ Upd("sync", [s EXCEPT !.pc = "connect",
                                !.ops = Append(@, Op("resolve", FALSE))])

sync_resolve ==
    LET s == st["sync"] IN
    /\ s.pc = "resolve"
    /\ \/ \E r \in ResolveResults :
             Upd("sync", [s EXCEPT !.results = r, !.pc = "connect",
                                   !.ops = Append(@, Op("resolve", TRUE))])
       \/ Upd("sync", Throw(s, "resolve", "resolve: Host not found"))

\* net::connect tries the candidates in order and returns the first that
\* accepts; it throws when none does.  The results are not read again.
sync_connect ==
    LET s == st["sync"] IN
    /\ s.pc = "connect"
    /\ \/ \E i \in 1..s.results.n :
             Upd("sync", [s EXCEPT !.ep = [port |-> s.results.port],
                                   !.results = NoEndpoints,
                                   !.ws = "Connected", !.pc = "sni",
                                   !.ops = Append(@, Op("connect", TRUE))])
       \/ Upd("sync", Throw(s, "connect", "connect: Connection refused"))

\* sync_sni appending the port string as given instead of the connected port
sync_sni_given_port ==
    LET s == st["sync"] IN
    /\ s.pc = "sni"
    /\ \/ Upd("sync", [s EXCEPT !.sni = s.host,
                                !.host = s.host \o ":" \o s.port,
                                !.pc = "tls",
                                !.ops = Append(@, Op("sni", TRUE))])
       \/ Upd("sync", Throw(s, "sni", "Failed to set SNI Hostname"))

\* sync_sni with the host updated before it is given to the TLS library
sync_sni_after_update ==
    LET s == st["sync"] IN
    /\ s.pc = "sni"
    /\ \/ Upd("sync", [s EXCEPT !.sni = s.host \o ":" \o to_string(s.ep.port),
                                !.host = s.host \o ":" \o to_string(s.ep.port),
                                !.pc = "tls",
                                !.ops = Append(@, Op("sni", TRUE))])
       \/ Upd("sync", Throw(s, "sni", "Failed to set SNI Hostname"))

\* sync_sni with the result of SSL_set_tlsext_host_name ignored
sync_sni_unchecked ==
    LET s == st["sync"] IN
    /\ s.pc = "sni"
    /\ \/ Upd("sync", [s EXCEPT !.sni = s.host,
                                !.host = s.host \o ":" \o to_string(s.ep.port),
                                !.pc = "tls",
                                !.ops = Append(@, Op("sni", TRUE))])
       \/ Upd("sync", [s EXCEPT !.host = s.host \o ":" \o to_string(s.ep.port),
                                !.pc = "tls",
                                !.ops = Append(@, Op("sni", FALSE))])

\* SSL_set_tlsext_host_name(..., host.c_str()), then host += ':' + port
sync_sni ==
    LET s == st["sync"] IN
    /\ s.pc = "sni"
    /\ \/ Upd("sync", [s EXCEPT !.sni = s.host,
                                !.host = s.host \o ":" \o to_string(s.ep.port),
                                !.pc = "tls",
                                !.ops = Append(@, Op("sni", TRUE))])
       \/ Upd("sync", Throw(s, "sni", "Failed to set SNI Hostname"))

\* sync_tls with the failure of the TLS handshake not raised
sync_tls_unchecked ==
    LET s == st["sync"] IN
    /\ s.pc = "tls"
    /\ \/ Upd("sync", [s EXCEPT !.ws = "TLSEstablished",
                                !.ua = BOOST_BEAST_VERSION_STRING \o " websocket-client-coro",
                                !.pc = "upgrade",
                                !.ops = Append(@, Op("tls", TRUE))])
       \/ Upd("sync", [s EXCEPT !.ua = BOOST_BEAST_VERSION_STRING \o " websocket-client-coro",
                                !.pc = "upgrade",
                                !.ops = Append(@, Op("tls", FALSE))])

\* ws.next_layer().handshake(client), then the decorator is installed
sync_tls ==
    LET s == st["sync"] IN
    /\ s.pc = "tls"
    /\ \/ Upd("sync", [s EXCEPT !.ws = "TLSEstablished",
                                !.ua = BOOST_BEAST_VERSION_STRING \o " websocket-client-coro",
                                !.pc = "upgrade",
                                !.ops = Append(@, Op("tls", TRUE))])
       \/ Upd("sync", Throw(s, "tls", "handshake: certificate verify failed"))

\* sync_upgrade through the overload that throws instead of setting ec
sync_upgrade_throwing ==
    LET s == st["sync"] IN
    /\ s.pc = "upgrade"
    /\ \E o \in HandshakeOutcomes :
          LET t == [s EXCEPT !.req = [host |-> s.host, path |-> s.path,
                                      user_agent |-> s.ua],
                             !.response = o.response]
          IN  IF o.ec = EcSuccess
                THEN Upd("sync", [t EXCEPT !.ec = o.ec, !.ws = "WebSocketEstablished",
                                           !.pc = "print_ec",
                                           !.ops = Append(@, Op("upgrade", TRUE))])
                ELSE Upd("sync", Throw(t, "upgrade", message(o.ec)))

\* ws.handshake(response, host, path, ec): every failure is returned in ec
sync_upgrade ==
    LET s == st["sync"] IN
    /\ s.pc = "upgrade"
    /\ \E o \in HandshakeOutcomes :
          Upd("sync", [s EXCEPT !.req = [host |-> s.host, path |-> s.path,
                                         user_agent |-> s.ua],
                                !.ec = o.ec, !.response = o.response,
                                !.ws = IF o.ec = EcSuccess
                                         THEN "WebSocketEstablished" ELSE @,
                                !.pc = "print_ec",
                                !.ops = Append(@, Op("upgrade", o.ec = EcSuccess))])

sync_print_ec ==
    /\ st["sync"].pc = "print_ec"
    /\ println_lock("sync", <<"[sync] ", message(st["sync"].ec)>>, "print_response")

sync_print_response ==
    /\ st["sync"].pc = "print_response"
    /\ println_lock("sync", <<"[sync] ", st["sync"].response>>, "check_ec")

\* sync_check_ec with the early return left out
sync_check_ec_ignored ==
    LET s == st["sync"] IN
    /\ s.pc = "check_ec"
    /\ Upd("sync", [s EXCEPT !.pc = "write"])

\* if (ec) return;
sync_check_ec ==
    LET s == st["sync"] IN
    /\ s.pc = "check_ec"
    /\ Upd("sync", [s EXCEPT !.pc = IF IsError(s.ec) THEN "return" ELSE "write"])

\* sync_write followed directly by the close, the read left out
sync_write_skip_read ==
    LET s == st["sync"] IN
    /\ s.pc = "write"
    /\ \/ Upd("sync", [s EXCEPT !.sent = Append(@, s.text), !.pc = "close",
                                !.ops = Append(@, Op("write", TRUE))])
       \/ Upd("sync", Throw(s, "write", "write: Broken pipe"))

sync_write ==
    LET s == st["sync"] IN
    /\ s.pc = "write"
    /\ \/ Upd("sync", [s EXCEPT !.sent = Append(@, s.text), !.pc = "read",
                                !.ops = Append(@, Op("write", TRUE))])
       \/ Upd("sync", Throw(s, "write", "write: Broken pipe"))

\* sync_read followed directly by the report, the close left out
sync_read_no_close ==
    LET s == st["sync"] IN
    /\ s.pc = "read"
    /\ \/ \E m \in Replies :
             Upd("sync", [s EXCEPT !.buffer = m, !.pc = "print_buffer",
                                   !.ops = Append(@, Op("read", TRUE))])
       \/ Upd("sync", Throw(s, "read", "read: End of file"))

sync_read ==
    LET s == st["sync"] IN
    /\ s.pc = "read"
    /\ \/ \E m \in Replies :
             Upd("sync", [s EXCEPT !.buffer = m, !.pc = "close",
                                   !.ops = Append(@, Op("read", TRUE))])
       \/ Upd("sync", Throw(s, "read", "read: End of file"))

\* sync_close with the failure of the close not raised
sync_close_unchecked ==
    LET s == st["sync"] IN
    /\ s.pc = "close"
    /\ \/ Upd("sync", [s EXCEPT !.ws = "Closed", !.pc = "print_buffer",
                                !.close_code = "normal",
                                !.ops = Append(@, Op("close", TRUE))])
       \/ Upd("sync", [s EXCEPT !.pc = "print_buffer",
                                !.close_code = "normal",
                                !.ops = Append(@, Op("close", FALSE))])

sync_close ==
    LET s == st["sync"] IN
    /\ s.pc = "close"
    /\ \/ Upd("sync", [s EXCEPT !.ws = "Closed", !.pc = "print_buffer",
                                !.close_code = "normal",
                                !.ops = Append(@, Op("close", TRUE))])
       \/ Upd("sync", Throw([s EXCEPT !.close_code = "normal"],
                          "close", "close: Operation canceled"))

sync_print_buffer ==
    /\ st["sync"].pc = "print_buffer"
    /\ println_lock("sync", <<"[sync] ", st["sync"].buffer>>, "return")

\* sync_catch stopping the io_context, which abandons the coroutine
sync_catch_stops_ioc ==
    /\ st["sync"].pc = "catch"
    /\ iomutex = Free
    /\ iomutex' = "sync"
    /\ st' = [st EXCEPT !["sync"].pc = "println",
                        !["sync"].args = <<"[sync] ", "Error: ", st["sync"].what>>,
                        !["sync"].written = 0, !["sync"].ret = "return",
                        !["async"].pc = IF @ \in {"idle", "println"} THEN @ ELSE "done"]
    /\ UNCHANGED <<argv, mainPc, exitStatus, ctxLoaded, cerr, cout>>

\* catch (std::exception &e)
sync_catch ==
    /\ st["sync"].pc = "catch"
    /\ println_lock("sync", <<"[sync] ", "Error: ", st["sync"].what>>, "return")

\* the function returns; its stream object is destroyed
sync_return ==
    LET s == st["sync"] IN
    /\ s.pc = "return"
    /\ Upd("sync", [s EXCEPT !.destroyed = TRUE, !.pc = "done"])

sync_test ==
    \/ sync_resolve \/ sync_connect \/ sync_sni \/ sync_tls \/ sync_upgrade
    \/ sync_print_ec \/ sync_print_response \/ sync_check_ec
    \/ sync_write \/ sync_read \/ sync_close \/ sync_print_buffer
    \/ sync_catch \/ sync_return
    \/ println_step("sync")

(***************************************************************************)
(* async_test, a coroutine run by ioc.run() on the main thread             *)
(***************************************************************************)
async_resolve ==
    LET s == st["async"] IN
    /\ Running("async")
    /\ s.pc = "resolve"
    /\ \/ \E r \in ResolveResults :
             Upd("async", [s EXCEPT !.results = r, !.pc = "connect",
                                   !.ops = Append(@, Op("resolve", TRUE))])
       \/ Upd("async", Throw(s, "resolve", "resolve: Host not found"))

\* net::async_connect tries the candidates in order and returns the first that
\* accepts; it throws when none does.  The results are not read again.
async_connect ==
    LET s == st["async"] IN
    /\ Running("async")
    /\ s.pc = "connect"
    /\ \/ \E i \in 1..s.results.n :
             Upd("async", [s EXCEPT !.ep = [port |-> s.results.port],
                                    !.results = NoEndpoints,
                                   !.ws = "Connected", !.pc = "sni",
                                   !.ops = Append(@, Op("connect", TRUE))])
       \/ Upd("async", Throw(s, "connect", "connect: Connection refused"))

\* SSL_set_tlsext_host_name(..., host.c_str()), then host += ':' + port
async_sni ==
    LET s == st["async"] IN
    /\ Running("async")
    /\ s.pc = "sni"
    /\ \/ Upd("async", [s EXCEPT !.sni = s.host,
                                !.host = s.host \o ":" \o to_string(s.ep.port),
                                !.pc = "tls",
                                !.ops = Append(@, Op("sni", TRUE))])
       \/ Upd("async", Throw(s, "sni", "Failed to set SNI Hostname"))

\* co_await ws.next_layer().async_handshake(client), then the decorator is installed
async_tls ==
    LET s == st["async"] IN
    /\ Running("async")
    /\ s.pc = "tls"
    /\ \/ Upd("async", [s EXCEPT !.ws = "TLSEstablished",
                                !.ua = BOOST_BEAST_VERSION_STRING \o " websocket-client-coro",
                                !.pc = "upgrade",
                                !.ops = Append(@, Op("tls", TRUE))])
       \/ Upd("async", Throw(s, "tls", "handshake: certificate verify failed"))

\* co_await ws.async_handshake(..., redirect_error(use_awaitable, ec)):
\* every failure is returned in ec
async_upgrade ==
    LET s == st["async"] IN
    /\ Running("async")
    /\ s.pc = "upgrade"
    /\ \E o \in HandshakeOutcomes :
          Upd("async", [s EXCEPT !.req = [host |-> s.host, path |-> s.path,
                                         user_agent |-> s.ua],
                                !.ec = o.ec, !.response = o.response,
                                !.ws = IF o.ec = EcSuccess
                                         THEN "WebSocketEstablished" ELSE @,
                                !.pc = "print_ec",
                                !.ops = Append(@, Op("upgrade", o.ec = EcSuccess))])

async_print_ec ==
    /\ Running("async")
    /\ st["async"].pc = "print_ec"
    /\ println_lock("async", <<"[async] ", message(st["async"].ec)>>, "print_response")

async_print_response ==
    /\ Running("async")
    /\ st["async"].pc = "print_response"
    /\ println_lock("async", <<"[async] ", st["async"].response>>, "check_ec")

\* async_check_ec with the early co_return left out
async_check_ec_ignored ==
    LET s == st["async"] IN
    /\ Running("async")
    /\ s.pc = "check_ec"
    /\ Upd("async", [s EXCEPT !.pc = "write"])

\* if (ec) co_return;
async_check_ec ==
    LET s == st["async"] IN
    /\ Running("async")
    /\ s.pc = "check_ec"
    /\ Upd("async", [s EXCEPT !.pc = IF IsError(s.ec) THEN "return" ELSE "write"])

async_write ==
    LET s == st["async"] IN
    /\ Running("async")
    /\ s.pc = "write"
    /\ \/ Upd("async", [s EXCEPT !.sent = Append(@, s.text), !.pc = "read",
                                !.ops = Append(@, Op("write", TRUE))])
       \/ Upd("async", Throw(s, "write", "write: Broken pipe"))

async_read ==
    LET s == st["async"] IN
    /\ Running("async")
    /\ s.pc = "read"
    /\ \/ \E m \in Replies :
             Upd("async", [s EXCEPT !.buffer = m, !.pc = "close",
                                   !.ops = Append(@, Op("read", TRUE))])
       \/ Upd("async", Throw(s, "read", "read: End of file"))

async_close ==
    LET s == st["async"] IN
    /\ Running("async")
    /\ s.pc = "close"
    /\ \/ Upd("async", [s EXCEPT !.ws = "Closed", !.pc = "print_buffer",
                                 !.close_code = "normal",
                                 !.ops = Append(@, Op("close", TRUE))])
       \/ Upd("async", Throw([s EXCEPT !.close_code = "normal"],
                             "close", "close: Operation canceled"))

async_print_buffer ==
    /\ Running("async")
    /\ st["async"].pc = "print_buffer"
    /\ println_lock("async", <<"[async] ", st["async"].buffer>>, "return")

\* catch (std::exception &e)
async_catch ==
    /\ Running("async")
    /\ st["async"].pc = "catch"
    /\ println_lock("async", <<"[async] ", "Error: ", st["async"].what>>, "return")

\* the function returns; its stream object is destroyed
async_return ==
    LET s == st["async"] IN
    /\ Running("async")
    /\ s.pc = "return"
    /\ Upd("async", [s EXCEPT !.destroyed = TRUE, !.pc = "done"])

async_test ==
    \/ async_resolve \/ async_connect \/ async_sni \/ async_tls \/ async_upgrade
    \/ async_print_ec \/ async_print_response \/ async_check_ec
    \/ async_write \/ async_read \/ async_close \/ async_print_buffer
    \/ async_catch \/ async_return
    \/ println_step("async")

Next ==
    \/ main_check_args \/ main_load_root_certificates \/ main_async
    \/ main_co_spawn \/ main_run \/ main_wait \/ main_return
    \/ sync_test
    \/ async_test

Spec == Init /\ [][Next]_vars

(***************************************************************************)
(* Reading the histories                                                   *)
(***************************************************************************)
HasOp(p, name)    == \E i \in DOMAIN st[p].ops : st[p].ops[i].op = name
OkOp(p, name)     == \E i \in DOMAIN st[p].ops : st[p].ops[i] = Op(name, TRUE)
FailedOp(p, name) == \E i \in DOMAIN st[p].ops : st[p].ops[i] = Op(name, FALSE)

\* every call of `name` was made after an earlier successful call of `first`
Preceded(p, name, first) ==
    \A i \in DOMAIN st[p].ops :
        st[p].ops[i].op = name =>
            \E j \in 1..(i - 1) : st[p].ops[j] = Op(first, TRUE)

Tag(p) == "[" \o p \o "] "

RECURSIVE SplitLines(_, _, _)
SplitLines(toks, cur, acc) ==
    IF toks = <<>> THEN acc
    ELSE IF Head(toks).s = "\n"
           THEN SplitLines(Tail(toks), <<>>, Append(acc, cur))
           ELSE SplitLines(Tail(toks), Append(cur, Head(toks).s), acc)

\* the complete lines pipeline p has put on std::cout
Lines(p) == SplitLines(SelectSeq(cout, LAMBDA t : t.by = p), <<>>, <<>>)

\* the lines written by the catch clause of pipeline p
ErrorLines(p) ==
    { i \in DOMAIN Lines(p) :
        /\ Len(Lines(p)[i]) = 3
        /\ Lines(p)[i][1] = Tag(p)
        /\ Lines(p)[i][2] = "Error: " }

\* the server answered the upgrade request and declined it
Rejected(p) == FailedOp(p, "upgrade") /\ st[p].response = Response401

\* the transport failed while the upgrade handshake was in progress
TransportFailed(p) == FailedOp(p, "upgrade") /\ st[p].response = NoResponse

MessageOps == {"write", "read", "close"}
TlsOrLater == {"TLSEstablished", "WebSocketEstablished", "Closed"}

(***************************************************************************)
(* C1: in either pipeline the WebSocket upgrade is started only after the  *)
(* TLS handshake of that pipeline has succeeded; the upgrade request is    *)
(* never sent on a stream that is not TLS-established.                     *)
(***************************************************************************)
C1_UpgradeAfterTls ==
    \A p \in Pipelines :
        /\ Preceded(p, "upgrade", "tls")
        /\ (st[p].req # NoReq \/ st[p].pc = "upgrade") => st[p].ws \in TlsOrLater

C1_Witness == \E p \in Pipelines : HasOp(p, "upgrade")

(***************************************************************************)
(* C2: the message is written only after the upgrade handshake completed   *)
(* with no error code; write, read and close are never performed on a      *)
(* connection whose upgrade has not succeeded.                             *)
(***************************************************************************)
C2_MessageAfterUpgrade ==
    \A p \in Pipelines :
        /\ \A name \in MessageOps : Preceded(p, name, "upgrade")
        /\ (st[p].pc \in MessageOps \/ \E name \in MessageOps : HasOp(p, name))
              => st[p].ec = EcSuccess

C2_Witness == \E p \in Pipelines : OkOp(p, "write") /\ st[p].pc = "done"

(***************************************************************************)
(* C3: when the server rejects the upgrade, the pipeline reports the       *)
(* handshake result (the error message and the response), performs no      *)
(* write, read or close, raises no exception, prints no "Error:" line and  *)
(* returns.                                                                *)
(***************************************************************************)
C3_RejectionIsSoft ==
    \A p \in Pipelines :
        Rejected(p) =>
            /\ st[p].what = NoStr
            /\ st[p].pc \in {"print_ec", "print_response", "check_ec",
                             "println", "return", "done"}
            /\ \A name \in MessageOps : ~HasOp(p, name)
            /\ ErrorLines(p) = {}
            /\ st[p].pc = "done" =>
                  Lines(p) = << <<Tag(p), message(EcDeclined)>>,
                                <<Tag(p), Response401>> >>

C3_Witness == \E p \in Pipelines : Rejected(p) /\ st[p].pc = "done"

(***************************************************************************)
(* C4 as stated: whenever a pipeline discards its stream, a WebSocket       *)
(* close has been initiated before, however the pipeline ends: normal      *)
(* completion, rejected upgrade, or a failure at a later stage (taken here *)
(* for the runs that got as far as the upgrade).                           *)
(***************************************************************************)
C4_CloseBeforeDiscard ==
    \A p \in Pipelines :
        (st[p].destroyed /\ HasOp(p, "upgrade")) => HasOp(p, "close")

(***************************************************************************)
(* C4 as amended: a close is initiated before the stream is discarded      *)
(* exactly in the runs where the upgrade, the write and the read have      *)
(* succeeded; in every other run (a failure before the upgrade, a rejected *)
(* or failed upgrade, a failed write or read) the stream is discarded      *)
(* without a close.                                                        *)
(***************************************************************************)
C4_CloseOnlyAfterRead ==
    \A p \in Pipelines :
        /\ Preceded(p, "close", "read")
        /\ Preceded(p, "read", "write")
        /\ st[p].destroyed => (HasOp(p, "close") <=> OkOp(p, "read"))

C4_Witness ==
    /\ \E p \in Pipelines : st[p].destroyed /\ HasOp(p, "close")
    /\ \E p \in Pipelines : st[p].destroyed /\ HasOp(p, "upgrade") /\ ~HasOp(p, "close")

(***************************************************************************)
(* C5: the Host value of the upgrade request is the host as given, ':',    *)
(* and the decimal port of the endpoint connect returned; when that        *)
(* differs from the port string given, the given one is not what follows   *)
(* the ':'.                                                                *)
(***************************************************************************)
C5_HostHeader ==
    \A p \in Pipelines :
        st[p].req # NoReq =>
            /\ st[p].req.host = argv[1] \o ":" \o to_string(st[p].ep.port)
            /\ to_string(st[p].ep.port) # argv[2] =>
                  st[p].req.host # argv[1] \o ":" \o argv[2]

C5_Witness ==
    \E p \in Pipelines :
        /\ st[p].req # NoReq
        /\ to_string(st[p].ep.port) # argv[2]
        /\ argv[2] = "443"

(***************************************************************************)
(* C6: the server name is set before the TLS handshake starts, and the     *)
(* name given is the host exactly as supplied, without the ":port" that    *)
(* is appended to the host variable afterwards.                            *)
(***************************************************************************)
C6_SniIsBareHost ==
    \A p \in Pipelines :
        /\ Preceded(p, "tls", "sni")
        /\ st[p].sni # NoStr => st[p].sni = argv[1]
        /\ HasOp(p, "tls") => st[p].sni = argv[1] /\ st[p].host # argv[1]

C6_Witness == \E p \in Pipelines : HasOp(p, "tls")

(***************************************************************************)
(* C7: when the TLS library rejects the server name, no TLS handshake, no  *)
(* upgrade, write, read or close follows, and the catch clause of that     *)
(* pipeline reports the failure.                                           *)
(***************************************************************************)
C7_SniFailureAborts ==
    \A p \in Pipelines :
        FailedOp(p, "sni") =>
            /\ st[p].ops[Len(st[p].ops)] = Op("sni", FALSE)
            /\ ~HasOp(p, "tls") /\ ~HasOp(p, "upgrade")
            /\ \A name \in MessageOps : ~HasOp(p, name)
            /\ st[p].req = NoReq /\ st[p].ws = "Connected"
            /\ st[p].what = "Failed to set SNI Hostname"
            /\ st[p].pc \in {"catch", "println", "return", "done"}
            /\ st[p].pc = "done" =>
                  Lines(p) = << <<Tag(p), "Error: ", "Failed to set SNI Hostname">> >>

C7_Witness == \E p \in Pipelines : FailedOp(p, "sni") /\ st[p].pc = "done"

(***************************************************************************)
(* C8: every upgrade request carries a User-Agent made of the product     *)
(* token and a suffix, and the suffix tells the two pipelines apart: the   *)
(* blocking pipeline's User-Agent differs from the cooperative one's.      *)
(***************************************************************************)
C8_UserAgentPerMode ==
    /\ \A p \in Pipelines :
          st[p].req # NoReq =>
             \E suffix \in {" websocket-client-sync", " websocket-client-coro"} :
                 st[p].req.user_agent = BOOST_BEAST_VERSION_STRING \o suffix
    /\ (st["sync"].req # NoReq /\ st["async"].req # NoReq)
          => st["sync"].req.user_agent # st["async"].req.user_agent

(***************************************************************************)
(* C9: a pipeline that ended on a failure of resolve, connect, SNI, TLS    *)
(* handshake, upgrade, write, read or close has reported it as exactly one *)
(* line of its catch clause, carrying the pipeline's tag.  (A rejection by *)
(* the server is not counted as a failure here.)                           *)
(***************************************************************************)
C9_OneErrorLine ==
    \A p \in Pipelines :
        (/\ st[p].pc = "done"
         /\ \E i \in DOMAIN st[p].ops : ~st[p].ops[i].ok
         /\ ~Rejected(p))
            => Cardinality(ErrorLines(p)) = 1

(***************************************************************************)
(* C10: a transport failure during the upgrade handshake ends the pipeline *)
(* as an error (an exception reported by the catch clause), unlike a       *)
(* rejection by the server, which alone is a clean return.                 *)
(***************************************************************************)
C10_TransportFailureIsError ==
    \A p \in Pipelines :
        (st[p].pc = "done" /\ TransportFailed(p))
            => st[p].what # NoStr /\ ErrorLines(p) # {}

Started(p)  == st[p].pc # "idle"
Terminal(p) == st[p].pc = "done"

(***************************************************************************)
(* C11: main does not return before both the worker running sync_test and  *)
(* the coroutine running async_test are finished: ioc.run() returns only   *)
(* once the coroutine has run to its end, and the future is waited for.    *)
(***************************************************************************)
C11_ExitAfterBoth ==
    /\ mainPc \in {"wait", "return", "exited"} /\ argc = 4 => Terminal("async")
    /\ mainPc \in {"return", "exited"} /\ argc = 4 =>
          \A p \in Pipelines : Terminal(p) /\ st[p].destroyed
    /\ exitStatus = EXIT_SUCCESS => \A p \in Pipelines : Terminal(p)

C11_Witness ==
    /\ mainPc = "exited" /\ exitStatus = EXIT_SUCCESS
    /\ \A p \in Pipelines : Terminal(p)

\* what a finished pipeline has to have printed, from its own locals alone
Report(p) ==
    LET s == st[p]
        handshake == IF s.ec = EcUnset THEN <<>>
                     ELSE << <<Tag(p), message(s.ec)>>, <<Tag(p), s.response>> >>
        last == IF s.what # NoStr THEN << <<Tag(p), "Error: ", s.what>> >>
                ELSE IF OkOp(p, "close") THEN << <<Tag(p), s.buffer>> >>
                ELSE <<>>
    IN  handshake \o last

Other(p) == IF p = "sync" THEN "async" ELSE "sync"

(***************************************************************************)
(* C12: the two pipelines do not influence each other.  No step changes    *)
(* the locals of both pipelines; what a finished pipeline has printed is   *)
(* determined by the answers it got itself, whatever the other pipeline    *)
(* did and however the two interleaved; an exception is seen only by the   *)
(* pipeline whose own call failed, and never ends the process: main still  *)
(* returns EXIT_SUCCESS after the other pipeline has finished.             *)
(***************************************************************************)
C12_Independent ==
    /\ [][st'["sync"] = st["sync"] \/ st'["async"] = st["async"]]_vars
    /\ [](\A p \in Pipelines :
            /\ Terminal(p) => Lines(p) = Report(p)
            /\ st[p].what # NoStr =>
                  /\ ~st[p].ops[Len(st[p].ops)].ok
                  /\ exitStatus # EXIT_FAILURE
                  /\ mainPc = "exited" => Terminal(Other(p)))

C12_Witness ==
    \E p \in Pipelines :
        /\ st[p].what # NoStr /\ Terminal(p)
        /\ Terminal(Other(p)) /\ OkOp(Other(p), "close")
        /\ mainPc = "exited"

Printing(p) == st[p].pc = "println"

(***************************************************************************)
(* C13: lines of the two pipelines never interleave on std::cout.  At most *)
(* one println call is in progress; everything between two newlines was   *)
(* written by one pipeline, starting with its tag; an unfinished line      *)
(* belongs to the holder of iomutex; a println call ends by writing        *)
(* exactly one newline and releasing iomutex, which is free whenever no    *)
(* call is in progress.                                                    *)
(***************************************************************************)
C13_NoInterleaving ==
    /\ [](/\ Cardinality({p \in Pipelines : Printing(p)}) <= 1
          /\ \A p \in Pipelines : Printing(p) <=> iomutex = p
          /\ iomutex \in Pipelines \cup {Free}
          /\ \A i \in 1..(Len(cout) - 1) :
                IF cout[i].s = "\n"
                  THEN cout[i + 1].s = Tag(cout[i + 1].by)
                  ELSE cout[i + 1].by = cout[i].by
          /\ cout # <<>> => cout[1].s = Tag(cout[1].by)
          /\ (cout # <<>> /\ cout[Len(cout)].s # "\n") =>
                iomutex = cout[Len(cout)].by
          /\ \A p \in Pipelines : Terminal(p) => Len(Lines(p)) = Len(Report(p)))
    /\ [][\A p \in Pipelines :
            (Printing(p) /\ ~Printing(p)') =>
                /\ cout' = Append(cout, Token(p, "\n"))
                /\ iomutex' = Free]_vars

C13_Witness ==
    /\ \E i \in 1..(Len(cout) - 1) : cout[i].by # cout[i + 1].by
    /\ \E p \in Pipelines : Printing(p) /\ st[Other(p)].pc \in {"print_ec", "catch"}

\* the answers the environment gave to pipeline p: the outcome of each call,
\* the port connected to, the result of the upgrade, the message received
\* and the text of the error the library raised
Answers(p) ==
    [ops |-> st[p].ops, port |-> st[p].ep.port, ec |-> st[p].ec,
     response |-> st[p].response, buffer |-> st[p].buffer, what |-> st[p].what]

\* the lines of pipeline p without their leading tag
Untagged(p) == [i \in DOMAIN Lines(p) |-> Tail(Lines(p)[i])]

MinLen(a, b) == IF Len(a) <= Len(b) THEN Len(a) ELSE Len(b)

(***************************************************************************)
(* C14: the blocking and the cooperative pipeline behave alike.  As long   *)
(* as they got the same answers they make the same calls in the same       *)
(* order; having got the same answers throughout they stop after the same  *)
(* call, have sent the same server name, upgrade request and message, and  *)
(* have printed the same lines except for the tag.                         *)
(***************************************************************************)
C14_Equivalent ==
    LET a == st["sync"].ops
        b == st["async"].ops
    IN  /\ \A i \in 1..MinLen(a, b) :
              (\A j \in 1..(i - 1) : a[j] = b[j]) => a[i].op = b[i].op
        /\ (Terminal("sync") /\ Terminal("async")) =>
              /\ (\A j \in 1..MinLen(a, b) : a[j] = b[j]) => Len(a) = Len(b)
              /\ \A p \in Pipelines :
                    \A i \in DOMAIN Lines(p) : Head(Lines(p)[i]) = Tag(p)
              /\ Answers("sync") = Answers("async") =>
                    /\ Untagged("sync") = Untagged("async")
                    /\ st["sync"].sni = st["async"].sni
                    /\ st["sync"].req = st["async"].req
                    /\ st["sync"].sent = st["async"].sent
                    /\ st["sync"].ws = st["async"].ws

C14_Witness ==
    /\ Terminal("sync") /\ Terminal("async")
    /\ Answers("sync") = Answers("async")
    /\ FailedOp("sync", "read")

(***************************************************************************)
(* C15: started with an argument count other than three, the process      *)
(* writes the usage message to std::cerr and exits with a non-zero status; *)
(* neither pipeline is started and no resolve, connect or handshake is     *)
(* made.  Started with three arguments it exits with status zero whatever  *)
(* the two pipelines ran into.                                             *)
(***************************************************************************)
C15_UsageOrZero ==
    /\ argc # 4 =>
          /\ \A p \in Pipelines : st[p] = InitPipe
          /\ cout = <<>> /\ ctxLoaded = 0
          /\ mainPc \in {"check_args", "exited"}
          /\ mainPc = "exited" =>
                /\ cerr = <<UsageText>>
                /\ exitStatus = EXIT_FAILURE /\ exitStatus # 0
    /\ argc = 4 =>
          /\ cerr = <<>>
          /\ exitStatus \in {NoStatus, EXIT_SUCCESS}
          /\ mainPc = "exited" => exitStatus = EXIT_SUCCESS /\ exitStatus = 0

C15_Witness == mainPc = "exited" /\ argc = 5 /\ cerr = <<UsageText>>

(***************************************************************************)
(* C16: the root certificates are loaded exactly once, and before either   *)
(* pipeline exists: whenever a pipeline has been started, and so whenever  *)
(* a TLS handshake is about to start or has been attempted, the load has   *)
(* completed; it is never done a second time.                              *)
(***************************************************************************)
C16_CertificatesFirst ==
    /\ ctxLoaded \in {0, 1}
    /\ \A p \in Pipelines :
          (Started(p) \/ st[p].pc = "tls" \/ HasOp(p, "tls")) => ctxLoaded = 1
    /\ mainPc \in {"async", "co_spawn", "run", "wait", "return"} => ctxLoaded = 1
    /\ (mainPc = "exited" /\ argc = 4) => ctxLoaded = 1

C16_Witness == \E p \in Pipelines : HasOp(p, "tls") /\ ctxLoaded = 1

\* the calls of a pipeline in the order of the source
Stages == <<"resolve", "connect", "sni", "tls", "upgrade", "write", "read", "close">>

(***************************************************************************)
(* C17: each pipeline is fail-stop.  Its calls are made in the order of    *)
(* the stages, each at most once; a failed call is the last call the       *)
(* pipeline makes; a failed lookup leaves the stream unconnected with no   *)
(* connect attempted, a failed connect starts no TLS handshake; and a      *)
(* pipeline ends only after its last stage or after a failed call.         *)
(***************************************************************************)
C17_FailStop ==
    \A p \in Pipelines :
        LET ops == st[p].ops IN
        /\ Len(ops) <= Len(Stages)
        /\ \A i \in DOMAIN ops :
              /\ ops[i].op = Stages[i]
              /\ ~ops[i].ok => i = Len(ops)
        /\ FailedOp(p, "resolve") => ~HasOp(p, "connect") /\ st[p].ws = "Unconnected"
        /\ FailedOp(p, "connect") => ~HasOp(p, "sni") /\ ~HasOp(p, "tls")
                                       /\ st[p].ws = "Unconnected"
        /\ Terminal(p) => ops # <<>> /\ (Len(ops) = Len(Stages) \/ ~ops[Len(ops)].ok)

C17_Witness ==
    /\ \E p \in Pipelines : FailedOp(p, "resolve") /\ Terminal(p)
    /\ \E p \in Pipelines : FailedOp(p, "connect") /\ Terminal(p)

Count(p, name) == Cardinality({i \in DOMAIN st[p].ops : st[p].ops[i].op = name})

(***************************************************************************)
(* C18: after a successful upgrade a pipeline writes the payload once,     *)
(* then reads one message once, then starts the close with the normal      *)
(* close code, in this order, each call being made once the one before it  *)
(* has returned: no call is made twice, the read is not started before the *)
(* write has returned and the close not before the read has returned.      *)
(***************************************************************************)
C18_WriteReadClose ==
    \A p \in Pipelines :
        /\ \A name \in MessageOps : Count(p, name) <= 1
        /\ Preceded(p, "read", "write")
        /\ Preceded(p, "close", "read")
        /\ st[p].sent = IF OkOp(p, "write") THEN <<argv[3]>> ELSE <<>>
        /\ HasOp(p, "close") <=> st[p].close_code = "normal"
        /\ st[p].buffer # NoStr <=> OkOp(p, "read")
        /\ Terminal(p) =>
              /\ OkOp(p, "upgrade") => Count(p, "write") = 1
              /\ OkOp(p, "write") => Count(p, "read") = 1
              /\ OkOp(p, "read") => Count(p, "close") = 1

C18_Witness ==
    \E p \in Pipelines :
        /\ Terminal(p) /\ OkOp(p, "upgrade")
        /\ Count(p, "write") = 1 /\ Count(p, "read") = 1 /\ Count(p, "close") = 1

(***************************************************************************)
(* Scheduling: the main thread and the worker thread are each scheduled    *)
(* again and again, and every I/O call a pipeline has issued completes     *)
(* (successfully or not), so a step of main, of sync_test or of async_test *)
(* that stays possible is eventually taken.                                *)
(***************************************************************************)
MainStep ==
    \/ main_check_args \/ main_load_root_certificates \/ main_async
    \/ main_co_spawn \/ main_run \/ main_wait \/ main_return

FairSpec ==
    /\ Spec
    /\ WF_vars(MainStep)
    /\ WF_vars(sync_test)
    /\ WF_vars(async_test)

(***************************************************************************)
(* C19: under this scheduling the process always exits: both pipelines     *)
(* reach their end, ioc.run() returns, the future is waited for and main   *)
(* returns, with status zero when it was started with three arguments; no  *)
(* interleaving of the pipelines and the console lock gets stuck.          *)
(***************************************************************************)
C19_Terminates ==
    <>(/\ mainPc = "exited"
       /\ argc = 4 => /\ exitStatus = EXIT_SUCCESS
                      /\ \A p \in Pipelines : Terminal(p)
                      /\ iomutex = Free)

C19_Witness ==
    /\ mainPc = "exited" /\ exitStatus = EXIT_SUCCESS /\ iomutex = Free
    /\ \A p \in Pipelines : Terminal(p) /\ Len(Lines(p)) = 3

\* all eight calls of pipeline p have been made and have succeeded
AllOk(p) == st[p].ops = [i \in DOMAIN Stages |-> Op(Stages[i], TRUE)]

\* pipeline p has printed the message it received
MessageReported(p) ==
    /\ Len(Lines(p)) >= 3
    /\ Lines(p)[3] = <<Tag(p), st[p].buffer>>

(***************************************************************************)
(* C20: a pipeline prints the message it received only after its close     *)
(* has succeeded.  The message is printed if and only if resolve, connect, *)
(* SNI, TLS handshake, upgrade, write, read and close have all succeeded;  *)
(* when the read succeeds and the close fails, the message is never        *)
(* printed and the pipeline prints an Error line instead.                  *)
(***************************************************************************)
C20_MessageAfterClose ==
    \A p \in Pipelines :
        /\ MessageReported(p) => AllOk(p) /\ st[p].ws = "Closed"
        /\ (st[p].pc = "print_buffer"
              \/ (Printing(p) /\ st[p].args = <<Tag(p), st[p].buffer>>)) => AllOk(p)
        /\ Terminal(p) => (MessageReported(p) <=> AllOk(p))
        /\ (OkOp(p, "read") /\ FailedOp(p, "close")) =>
              /\ ~MessageReported(p)
              /\ \A i \in DOMAIN Lines(p) : Lines(p)[i] # <<Tag(p), st[p].buffer>>
              /\ Terminal(p) => Lines(p)[3] = <<Tag(p), "Error: ", st[p].what>>

C20_Witness ==
    /\ \E p \in Pipelines : Terminal(p) /\ OkOp(p, "read") /\ FailedOp(p, "close")
    /\ \E p \in Pipelines : Terminal(p) /\ MessageReported(p)

====
